---- MODULE Spec2Model ----
(***************************************************************************)
(* examples/undocumented/python/classifier_multiclassliblinear.py          *)
(*                                                                         *)
(* The script is modelled as a state machine whose steps are the           *)
(* statements of classifier_multiclassliblinear and of the __main__ block. *)
(* The toolkit it calls (sg.features, MulticlassLabels, sg.machine, train, *)
(* apply, get, MulticlassAccuracy.evaluate) and prepare_data are not part  *)
(* of the file; they are modelled from the specification's description of  *)
(* them.                                                                   *)
(*                                                                         *)
(* Numbers: every hyperparameter is an integer count of 1e-5, so           *)
(* 2.1 = 210000, 2.2 = 220000, 1 = 100000 and 1e-5 = 1.                    *)
(***************************************************************************)
EXTENDS Integers, Sequences, FiniteSets

VARIABLES
    name,     \* __name__ of the module: "__main__" or "imported"
    lib,      \* the toolkit build: does it reject empty inputs?
    heap,     \* the caller's arrays, by name (passed by reference)
    pc,       \* position of the interpreter
    frame,    \* parameters and locals of the running invocation
    calls,    \* toolkit calls made by the running invocation, in order
    stdout,   \* lines written to standard output by the process
    ret,      \* what the last invocation handed back to its caller
    ninv,     \* invocations started so far
    budget,   \* invocations the importing caller makes
    done      \* summaries of the finished invocations, oldest first

vars == <<name, lib, heap, pc, frame, calls, stdout, ret, ninv, budget, done>>

----------------------------------------------------------------------------
(* Bounds of the model. *)

MaxTrain == 1
MaxTest == 2
MaxCalls == 2

Feat == {0, 1}
Classes == {0, 1}

Vectors(S, n) == UNION {[1..k -> S] : k \in 0..n}

----------------------------------------------------------------------------
(* Values. *)

Unset == [kind |-> "unset"]
NoReturn == [kind |-> "none"]
ArrayNames == {"traindat", "label_traindat", "testdat", "label_testdat"}

(* <<width, C, epsilon>> an importing caller passes: the two example sets,  *)
(* and variations of the first.                                            *)
Hyper ==
    {<<210000, 100000, 1>>, <<220000, 100000, 1>>, <<210000, 200000, 1>>,
     <<210000, 100000, 10>>, <<220000, 100000, 10>>, <<210000, 0, 1>>}

----------------------------------------------------------------------------
(* The toolkit, as the specification describes it.  A call either raises   *)
(* (shape mismatch, empty input, invalid hyperparameter) or returns a new  *)
(* object; it never writes to the arrays it is given.                      *)

RejectsEmpty(l, data) == l = "rejects_empty" /\ Len(data) = 0

sg_features_raises(l, data) == RejectsEmpty(l, data)

sg_features(data) == [kind |-> "features", data |-> data]

MulticlassLabels_raises(l, data) == RejectsEmpty(l, data)

MulticlassLabels(data) == [kind |-> "labels", data |-> data]

sg_machine_raises(C) == C <= 0

sg_machine(algo, C, labels) ==
    [kind |-> "machine", algo |-> algo, C |-> C, labels |-> labels.data,
     samples |-> <<>>, ntrain |-> 0, napply |-> 0]

train_raises(m, feats) == Len(feats.data) # Len(m.labels)

train(m, feats) ==
    [m EXCEPT !.samples = feats.data, !.ntrain = m.ntrain + 1]

(* A deterministic stand-in for the linear solver: the class whose training *)
(* samples best match x, weighted by C; ties go to the smallest class.      *)
Count(m, c) == Cardinality({i \in 1..Len(m.labels) : m.labels[i] = c})

CountAt(m, c, x) ==
    Cardinality({i \in 1..Len(m.labels) : m.labels[i] = c /\ m.samples[i] = x})

Score(m, c, x) == m.C * CountAt(m, c, x) + 100000 * Count(m, c)

Predict(m, x) ==
    CHOOSE c \in Classes :
        \A d \in Classes :
            \/ Score(m, c, x) > Score(m, d, x)
            \/ Score(m, c, x) = Score(m, d, x) /\ c <= d

apply_raises(m, feats) == m.ntrain = 0

apply_labels(m, feats) ==
    [kind |-> "labels",
     data |-> [i \in 1..Len(feats.data) |-> Predict(m, feats.data[i])]]

apply_machine(m) == [m EXCEPT !.napply = m.napply + 1]

get_labels(lab) == [kind |-> "array", data |-> lab.data]

MulticlassAccuracy == [kind |-> "evaluator"]

evaluate_raises(pred, truth) == Len(pred.data) # Len(truth.data)

(* n correct out of d; d = 0 is the undefined quotient 0/0 (NaN). *)
evaluate(pred, truth) ==
    [n |-> Cardinality({i \in 1..Len(pred.data) : pred.data[i] = truth.data[i]}),
     d |-> Len(pred.data)]

----------------------------------------------------------------------------
(* Python's own operations used by the script. *)

IsNaN(a) == a.d = 0

(* 'Accuracy = %.4f' % acc: the value rounded to 4 decimals, or 'nan'. *)
Format4f(a) ==
    IF IsNaN(a)
    THEN [text |-> "Accuracy = nan", whole |-> -1, frac |-> -1]
    ELSE LET q == (2 * 10000 * a.n + a.d) \div (2 * a.d)
         IN [text |-> "Accuracy = ", whole |-> q \div 10000, frac |-> q % 10000]

DiagnosticLine == [text |-> "MulticlassLibLinear", whole |-> -1, frac |-> -1]

(* Line 6. *)
parameter_list ==
    << <<"traindat", "testdat", "label_traindat", "label_testdat", 210000, 100000, 1>>,
       <<"traindat", "testdat", "label_traindat", "label_testdat", 220000, 100000, 1>> >>

(* Line 8 with C declared before width. *)
Bind_C_before_width(t) ==
    [fm_train_real |-> t[1], fm_test_real |-> t[2],
     label_train_multiclass |-> t[3], label_test_multiclass |-> t[4],
     C |-> t[5], width |-> t[6], epsilon |-> t[7]]

(* Line 8: positional binding of a call's arguments to the parameters. *)
Bind(t) ==
    [fm_train_real |-> t[1], fm_test_real |-> t[2],
     label_train_multiclass |-> t[3], label_test_multiclass |-> t[4],
     width |-> t[5], C |-> t[6], epsilon |-> t[7]]

(* What an importing caller may pass. *)
ArgTuples ==
    {<<"traindat", "testdat", "label_traindat", lt, h[1], h[2], h[3]>> :
        lt \in {"label_testdat", "None"}, h \in Hyper}

NoFrame == [kind |-> "noframe"]

NewFrame(t) ==
    [kind |-> "frame", argv |-> t, args |-> Bind(t), out0 |-> Len(stdout),
     feats_train |-> Unset, feats_test |-> Unset, labels |-> Unset,
     classifier |-> Unset, label_pred |-> Unset, out |-> Unset,
     labels_test |-> Unset, evaluator |-> Unset, acc |-> Unset]

----------------------------------------------------------------------------
(* The end of an invocation: by return or by an exception that nothing in  *)
(* the script catches.  The frame is dropped with everything it holds.     *)

Summary(r) ==
    [kind |-> "invocation", argv |-> frame.argv, args |-> frame.args, calls |-> calls',
     printed |-> SubSeq(stdout', frame.out0 + 1, Len(stdout')), ret |-> r]

Unwind(r) ==
    /\ ret' = r
    /\ done' = Append(done, Summary(r))
    /\ frame' = NoFrame
    /\ pc' = IF name = "imported" THEN "idle"
             ELSE IF r.kind = "exception" THEN "crashed" ELSE "exit"

Raise(call) ==
    /\ calls' = Append(calls, call)
    /\ stdout' = stdout
    /\ Unwind([kind |-> "exception", from |-> call.fn])
    /\ UNCHANGED <<name, lib, heap, ninv, budget>>

Step(call, next, f) ==
    /\ calls' = Append(calls, call)
    /\ frame' = f
    /\ pc' = next
    /\ UNCHANGED <<name, lib, heap, stdout, ret, ninv, budget, done>>

Enter(t) ==
    /\ frame' = NewFrame(t)
    /\ calls' = <<>>
    /\ ret' = NoReturn
    /\ ninv' = ninv + 1
    /\ pc' = "L12"
    /\ UNCHANGED <<name, lib, heap, stdout, budget, done>>

----------------------------------------------------------------------------
(* classifier_multiclassliblinear, statement by statement. *)

L12 ==
    /\ pc = "L12"
    /\ LET data == heap[frame.args.fm_train_real]
           call == [fn |-> "sg.features", args |-> <<data>>]
       IN IF sg_features_raises(lib, data)
          THEN Raise(call)
          ELSE Step(call, "L13", [frame EXCEPT !.feats_train = sg_features(data)])

L13 ==
    /\ pc = "L13"
    /\ LET data == heap[frame.args.fm_test_real]
           call == [fn |-> "sg.features", args |-> <<data>>]
       IN IF sg_features_raises(lib, data)
          THEN Raise(call)
          ELSE Step(call, "L15", [frame EXCEPT !.feats_test = sg_features(data)])

L15 ==
    /\ pc = "L15"
    /\ LET data == heap[frame.args.label_train_multiclass]
           call == [fn |-> "MulticlassLabels", args |-> <<data>>]
       IN IF MulticlassLabels_raises(lib, data)
          THEN Raise(call)
          ELSE Step(call, "L17", [frame EXCEPT !.labels = MulticlassLabels(data)])

(* Line 17 also handing epsilon to the classifier. *)
L17_passes_epsilon ==
    /\ pc = "L17"
    /\ LET call == [fn |-> "sg.machine",
                    args |-> <<"MulticlassLibLinear", frame.args.C, frame.labels,
                               frame.args.epsilon>>]
       IN IF sg_machine_raises(frame.args.C)
          THEN Raise(call)
          ELSE Step(call, "L18",
                    [frame EXCEPT !.classifier =
                        sg_machine("MulticlassLibLinear", frame.args.C, frame.labels)])

L17 ==
    /\ pc = "L17"
    /\ LET call == [fn |-> "sg.machine",
                    args |-> <<"MulticlassLibLinear", frame.args.C, frame.labels>>]
       IN IF sg_machine_raises(frame.args.C)
          THEN Raise(call)
          ELSE Step(call, "L18",
                    [frame EXCEPT !.classifier =
                        sg_machine("MulticlassLibLinear", frame.args.C, frame.labels)])

(* Line 18 training on the test features. *)
L18_test_features ==
    /\ pc = "L18"
    /\ LET call == [fn |-> "train", args |-> <<frame.classifier, frame.feats_test>>]
       IN IF train_raises(frame.classifier, frame.feats_test)
          THEN Raise(call)
          ELSE Step(call, "L20",
                    [frame EXCEPT !.classifier = train(frame.classifier, frame.feats_test)])

(* Line 18 inside a try/except that swallows the failure and carries on. *)
L18_swallow ==
    /\ pc = "L18"
    /\ LET call == [fn |-> "train", args |-> <<frame.classifier, frame.feats_train>>]
       IN IF train_raises(frame.classifier, frame.feats_train)
          THEN Step(call, "L20", frame)
          ELSE Step(call, "L20",
                    [frame EXCEPT !.classifier = train(frame.classifier, frame.feats_train)])

L18 ==
    /\ pc = "L18"
    /\ LET call == [fn |-> "train", args |-> <<frame.classifier, frame.feats_train>>]
       IN IF train_raises(frame.classifier, frame.feats_train)
          THEN Raise(call)
          ELSE Step(call, "L20",
                    [frame EXCEPT !.classifier = train(frame.classifier, frame.feats_train)])

(* Line 20 applied to the training features instead of the test features. *)
L20_train_features ==
    /\ pc = "L20"
    /\ LET call == [fn |-> "apply", args |-> <<frame.classifier, frame.feats_train>>]
       IN IF apply_raises(frame.classifier, frame.feats_train)
          THEN Raise(call)
          ELSE Step(call, "L21",
                    [frame EXCEPT
                        !.label_pred = apply_labels(frame.classifier, frame.feats_train),
                        !.classifier = apply_machine(frame.classifier)])

L20 ==
    /\ pc = "L20"
    /\ LET call == [fn |-> "apply", args |-> <<frame.classifier, frame.feats_test>>]
       IN IF apply_raises(frame.classifier, frame.feats_test)
          THEN Raise(call)
          ELSE Step(call, "L21",
                    [frame EXCEPT
                        !.label_pred = apply_labels(frame.classifier, frame.feats_test),
                        !.classifier = apply_machine(frame.classifier)])

L21 ==
    /\ pc = "L21"
    /\ Step([fn |-> "get", args |-> <<frame.label_pred, "labels">>], "L23",
            [frame EXCEPT !.out = get_labels(frame.label_pred)])

(* Line 23 without its test: the accuracy block is entered regardless. *)
L23_unconditional ==
    /\ pc = "L23"
    /\ pc' = "L25"
    /\ UNCHANGED <<name, lib, heap, frame, calls, stdout, ret, ninv, budget, done>>

L23 ==
    /\ pc = "L23"
    /\ pc' = IF frame.args.label_test_multiclass # "None" THEN "L25" ELSE "L30"
    /\ UNCHANGED <<name, lib, heap, frame, calls, stdout, ret, ninv, budget, done>>

(* Line 25 sorting the caller's test labels in place before wrapping them. *)
SortedPair(v) == IF Len(v) = 2 /\ v[1] > v[2] THEN <<v[2], v[1]>> ELSE v

L25_sorts_in_place ==
    /\ pc = "L25"
    /\ LET ref == frame.args.label_test_multiclass
           data == SortedPair(heap[ref])
           call == [fn |-> "MulticlassLabels", args |-> <<data>>]
       IN /\ ref # "None"
          /\ heap' = [heap EXCEPT ![ref] = data]
          /\ calls' = Append(calls, call)
          /\ frame' = [frame EXCEPT !.labels_test = MulticlassLabels(data)]
          /\ pc' = "L26"
          /\ UNCHANGED <<name, lib, stdout, ret, ninv, budget, done>>

L25 ==
    /\ pc = "L25"
    /\ LET ref == frame.args.label_test_multiclass
           data == IF ref = "None" THEN <<>> ELSE heap[ref]
           call == [fn |-> "MulticlassLabels", args |-> <<data>>]
       IN IF ref = "None" \/ MulticlassLabels_raises(lib, data)
          THEN Raise(call)
          ELSE Step(call, "L26", [frame EXCEPT !.labels_test = MulticlassLabels(data)])

L26 ==
    /\ pc = "L26"
    /\ Step([fn |-> "MulticlassAccuracy", args |-> <<>>], "L27",
            [frame EXCEPT !.evaluator = MulticlassAccuracy])

(* Line 27 scoring against the training labels. *)
L27_training_labels ==
    /\ pc = "L27"
    /\ LET call == [fn |-> "evaluate", args |-> <<frame.label_pred, frame.labels>>]
       IN IF evaluate_raises(frame.label_pred, frame.labels)
          THEN Raise(call)
          ELSE Step(call, "L28",
                    [frame EXCEPT !.acc = evaluate(frame.label_pred, frame.labels)])

(* Line 27 turning the fraction into a percentage. *)
L27_percentage ==
    /\ pc = "L27"
    /\ LET call == [fn |-> "evaluate", args |-> <<frame.label_pred, frame.labels_test>>]
           a == evaluate(frame.label_pred, frame.labels_test)
       IN IF evaluate_raises(frame.label_pred, frame.labels_test)
          THEN Raise(call)
          ELSE Step(call, "L28", [frame EXCEPT !.acc = [n |-> 100 * a.n, d |-> a.d]])

L27 ==
    /\ pc = "L27"
    /\ LET call == [fn |-> "evaluate", args |-> <<frame.label_pred, frame.labels_test>>]
       IN IF evaluate_raises(frame.label_pred, frame.labels_test)
          THEN Raise(call)
          ELSE Step(call, "L28",
                    [frame EXCEPT !.acc = evaluate(frame.label_pred, frame.labels_test)])

L28 ==
    /\ pc = "L28"
    /\ stdout' = Append(stdout, Format4f(frame.acc))
    /\ pc' = "L30"
    /\ UNCHANGED <<name, lib, heap, frame, calls, ret, ninv, budget, done>>

L30 ==
    /\ pc = "L30"
    /\ calls' = calls
    /\ stdout' = stdout
    /\ Unwind(frame.out)
    /\ UNCHANGED <<name, lib, heap, ninv, budget>>

----------------------------------------------------------------------------
(* The callers: the __main__ block, or a program that imported the module. *)

L33 ==
    /\ pc = "L32"
    /\ name = "__main__"
    /\ stdout' = Append(stdout, DiagnosticLine)
    /\ pc' = "L34"
    /\ UNCHANGED <<name, lib, heap, frame, calls, ret, ninv, budget, done>>

(* Line 34 running the second parameter set. *)
L34_second_set ==
    /\ pc = "L34"
    /\ Enter(parameter_list[2])

L34 ==
    /\ pc = "L34"
    /\ Enter(parameter_list[1])

CallerInvoke ==
    /\ pc = "idle"
    /\ ninv < budget
    /\ \E t \in ArgTuples : Enter(t)

----------------------------------------------------------------------------
(* Line 4: prepare_data hands back four arrays; nothing here checks them.  *)

Arrays(nTrain, nTest) ==
    {[traindat |-> a, label_traindat |-> b, testdat |-> c, label_testdat |-> d] :
        a \in Vectors(Feat, nTrain), b \in Vectors(Classes, nTrain),
        c \in Vectors(Feat, nTest), d \in Vectors(Classes, nTest)}

Loaded(arrays, n) ==
    /\ name \in {"__main__", "imported"}
    /\ lib \in {"rejects_empty", "accepts_empty"}
    /\ heap \in arrays
    /\ pc = IF name = "__main__" THEN "L32" ELSE "idle"
    /\ frame = NoFrame
    /\ calls = <<>>
    /\ stdout = <<>>
    /\ ret = NoReturn
    /\ ninv = 0
    /\ budget = n
    /\ done = <<>>

(* Any four arrays, one invocation. *)
Init == Loaded(Arrays(MaxTrain, MaxTest), 1)

(* Arrays that meet the routine's input contract (non-empty, one label per *)
(* sample), and a caller that invokes the routine several times.           *)
ExampleData ==
    {[traindat |-> <<0, 1>>, label_traindat |-> <<0, 1>>,
      testdat |-> <<0, 1, 1>>, label_testdat |-> <<0, 1, 1>>],
     [traindat |-> <<0, 1>>, label_traindat |-> <<0, 1>>,
      testdat |-> <<1, 0, 1>>, label_testdat |-> <<1, 1, 1>>],
     [traindat |-> <<0, 0, 1>>, label_traindat |-> <<0, 1, 1>>,
      testdat |-> <<0>>, label_testdat |-> <<1>>]}

InitExample == Loaded(ExampleData, MaxCalls)

Next ==
    \/ L12 \/ L13 \/ L15 \/ L17 \/ L18 \/ L20 \/ L21
    \/ L23 \/ L25 \/ L26 \/ L27 \/ L28 \/ L30
    \/ L33 \/ L34 \/ CallerInvoke

Spec == Init /\ [][Next]_vars

SpecExample == InitExample /\ [][Next]_vars

----------------------------------------------------------------------------
(* Vocabulary of the properties. *)

Running == frame.kind = "frame"

Completed(s) == s.ret.kind = "array"

Failed(s) == s.ret.kind = "exception"

CallsOf(cs, f) == {k \in DOMAIN cs : cs[k].fn = f}

TestSamples(a) == Len(heap[a.fm_test_real])

(* 'Accuracy = X.XXXX': the prefix, an integer part, four decimals. *)
IsAccuracyLine(l) == l.text = "Accuracy = " /\ l.whole >= 0 /\ l.frac \in 0..9999

NaNLine == [text |-> "Accuracy = nan", whole |-> -1, frac |-> -1]

InUnitInterval(a) == a.d > 0 /\ 0 <= a.n /\ a.n <= a.d

----------------------------------------------------------------------------
\* C1: every invocation that completes returns exactly one predicted label
\* per sample of the test feature matrix it was given, with or without test
\* labels.
C1_PredictionLength ==
    \A i \in DOMAIN done :
        Completed(done[i]) => Len(done[i].ret.data) = TestSamples(done[i].args)

C1_Witness ==
    \E i \in DOMAIN done :
        /\ Completed(done[i])
        /\ done[i].args.label_test_multiclass = "None"
        /\ Len(done[i].ret.data) = 2
        /\ Len(heap.traindat) = 1

----------------------------------------------------------------------------
(* What a completed invocation with test labels wrote and scored: one line, *)
(* produced from evaluate(pred, truth) where pred is the object whose       *)
(* labels were extracted and returned, and truth wraps the caller's test    *)
(* labels; nothing is written before the prediction or after the return.    *)
ScoredAndPrinted(s, form(_)) ==
    /\ Len(s.printed) = 1
    /\ form(s.printed[1])
    /\ Cardinality(CallsOf(s.calls, "evaluate")) = 1
    /\ \A e \in CallsOf(s.calls, "evaluate") :
          /\ \E a \in CallsOf(s.calls, "apply") : a < e
          /\ \E g \in CallsOf(s.calls, "get") :
                /\ s.calls[g].args[1] = s.calls[e].args[1]
                /\ s.ret = get_labels(s.calls[e].args[1])
          /\ s.calls[e].args[2] = MulticlassLabels(heap[s.args.label_test_multiclass])
          /\ s.printed[1] = Format4f(evaluate(s.calls[e].args[1], s.calls[e].args[2]))

PrintedOnlyAtTheEnd ==
    (Running /\ Len(stdout) > frame.out0) =>
        /\ pc = "L30"
        /\ frame.label_pred # Unset
        /\ frame.out # Unset
        /\ Len(stdout) = frame.out0 + 1

LineForm(n, l) == IF n >= 1 THEN IsAccuracyLine(l) ELSE l = NaNLine

----------------------------------------------------------------------------
NormalOrder ==
    <<"sg.features", "sg.features", "MulticlassLabels", "sg.machine", "train",
      "apply", "get", "MulticlassLabels", "MulticlassAccuracy", "evaluate">>

InNormalOrder(cs) ==
    /\ Len(cs) <= Len(NormalOrder)
    /\ \A k \in DOMAIN cs : cs[k].fn = NormalOrder[k]

CallRaises(c) ==
    CASE c.fn = "sg.features" -> sg_features_raises(lib, c.args[1])
      [] c.fn = "MulticlassLabels" -> MulticlassLabels_raises(lib, c.args[1])
      [] c.fn = "sg.machine" -> sg_machine_raises(c.args[2])
      [] c.fn = "train" -> train_raises(c.args[1], c.args[2])
      [] c.fn = "apply" -> apply_raises(c.args[1], c.args[2])
      [] c.fn = "evaluate" -> evaluate_raises(c.args[1], c.args[2])
      [] OTHER -> FALSE

\* C7: a toolkit call that raises ends the invocation there: it is the last
\* call made (no later step, no retry), its exception is what the caller
\* gets, no accuracy line is written and no value is returned.
C7_FailurePropagates ==
    /\ \A i \in DOMAIN done :
          LET s == done[i]
          IN /\ InNormalOrder(s.calls)
             /\ \A k \in DOMAIN s.calls :
                   CallRaises(s.calls[k]) =>
                      /\ k = Len(s.calls)
                      /\ s.ret = [kind |-> "exception", from |-> s.calls[k].fn]
                      /\ s.printed = <<>>
             /\ Failed(s) => (Len(s.calls) >= 1 /\ CallRaises(s.calls[Len(s.calls)]))
    /\ Running => \A k \in DOMAIN calls : ~CallRaises(calls[k])
    /\ (~Running /\ Len(done) > 0 /\ Failed(done[Len(done)])) =>
          (ret = done[Len(done)].ret /\ pc = IF name = "__main__" THEN "crashed" ELSE "idle")

C7_Witness ==
    \E i \in DOMAIN done :
        /\ done[i].ret = [kind |-> "exception", from |-> "train"]
        /\ Len(done[i].calls) = 5
        /\ pc = "idle"

----------------------------------------------------------------------------
AccuracyComputed == Running /\ frame.acc # Unset

----------------------------------------------------------------------------
\* C10: no step of the routine or of its callers changes the caller's
\* arrays: training features, test features, training labels, test labels.
C10_InputsUnchanged == [][heap' = heap]_vars

C10_Witness ==
    \E i \in DOMAIN done :
        /\ Completed(done[i])
        /\ done[i].args.label_test_multiclass # "None"
        /\ heap.label_testdat = <<1, 0>>
        /\ heap.traindat # <<>>

----------------------------------------------------------------------------
(* The C the classifier was constructed with. *)
MachineC(s) == {s.calls[k].args[2] : k \in CallsOf(s.calls, "sg.machine")}

RanToLength(s) == Completed(s) /\ Len(s.ret.data) = TestSamples(s.args)

\* C4 as stated: the two example parameter sets hand different C to the
\* classifier, 2.1 in the first and 2.2 in the second, and the routine
\* completes on either with one predicted label per test sample.
C4_AsStated ==
    \A i \in DOMAIN done :
        /\ done[i].argv = parameter_list[1] =>
              (MachineC(done[i]) = {210000} /\ RanToLength(done[i]))
        /\ done[i].argv = parameter_list[2] =>
              (MachineC(done[i]) = {220000} /\ RanToLength(done[i]))

\* C4 amended: the two example parameter sets differ in width (2.1 in the
\* first, 2.2 in the second) and hand the same C = 1 to the classifier, and
\* the routine completes on either with one predicted label per test sample.
C4_ExampleSets ==
    \A i \in DOMAIN done :
        /\ done[i].argv = parameter_list[1] =>
              /\ done[i].args.width = 210000
              /\ MachineC(done[i]) = {100000}
              /\ RanToLength(done[i])
        /\ done[i].argv = parameter_list[2] =>
              /\ done[i].args.width = 220000
              /\ MachineC(done[i]) = {100000}
              /\ RanToLength(done[i])

C4_Witness ==
    /\ Len(done) = 2
    /\ done[1].argv = parameter_list[1]
    /\ done[2].argv = parameter_list[2]
    /\ Completed(done[1])
    /\ Completed(done[2])

----------------------------------------------------------------------------
AgreeButWidthEpsilon(a, b) ==
    /\ a.fm_train_real = b.fm_train_real
    /\ a.fm_test_real = b.fm_test_real
    /\ a.label_train_multiclass = b.label_train_multiclass
    /\ a.label_test_multiclass = b.label_test_multiclass
    /\ a.C = b.C

\* C5: two invocations that agree on the four arrays and on C, whatever
\* their width and epsilon, make the same toolkit calls in the same order
\* with the same arguments (so build the same classifier), return the same
\* labels and print the same output.
C5_WidthEpsilonInert ==
    \A i, j \in DOMAIN done :
        AgreeButWidthEpsilon(done[i].args, done[j].args) =>
            /\ done[i].calls = done[j].calls
            /\ done[i].ret = done[j].ret
            /\ done[i].printed = done[j].printed

C5_Witness ==
    \E i, j \in DOMAIN done :
        /\ AgreeButWidthEpsilon(done[i].args, done[j].args)
        /\ done[i].args.width # done[j].args.width
        /\ done[i].args.epsilon # done[j].args.epsilon
        /\ Completed(done[i])
        /\ Len(done[i].printed) = 1

----------------------------------------------------------------------------
\* C6: run as a script on arrays that meet the input contract, the module
\* invokes the routine once, with parameter_list[0] and never with the
\* second set, and has written exactly two lines when it ends: first
\* 'MulticlassLibLinear', then the accuracy line.
C6_ScriptRun ==
    name = "__main__" =>
        /\ pc # "crashed"
        /\ ninv <= 1
        /\ Running => frame.argv = parameter_list[1]
        /\ Len(stdout) >= 1 => stdout[1] = DiagnosticLine
        /\ ninv = 1 => (Len(stdout) >= 1 /\ pc # "L32")
        /\ pc = "exit" =>
              /\ ninv = 1
              /\ Len(done) = 1
              /\ done[1].argv = parameter_list[1]
              /\ Completed(done[1])
              /\ stdout = <<DiagnosticLine>> \o done[1].printed
              /\ Len(stdout) = 2
              /\ IsAccuracyLine(stdout[2])

C6_Witness == name = "__main__" /\ pc = "exit" /\ Len(stdout) = 2

----------------------------------------------------------------------------
(* construct -> train -> apply on one classifier made by this invocation. *)
Lifecycle(a, cs) ==
    /\ Cardinality(CallsOf(cs, "sg.machine")) <= 1
    /\ Cardinality(CallsOf(cs, "train")) <= 1
    /\ Cardinality(CallsOf(cs, "apply")) <= 1
    /\ \A m \in CallsOf(cs, "sg.machine") :
          cs[m].args[3] = MulticlassLabels(heap[a.label_train_multiclass])
    /\ \A t \in CallsOf(cs, "train") :
          /\ \E m \in CallsOf(cs, "sg.machine") :
                /\ m < t
                /\ cs[t].args[1] = sg_machine(cs[m].args[1], cs[m].args[2], cs[m].args[3])
          /\ cs[t].args[2] = sg_features(heap[a.fm_train_real])
    /\ \A p \in CallsOf(cs, "apply") :
          /\ \E t \in CallsOf(cs, "train") :
                /\ t < p
                /\ cs[p].args[1] = train(cs[t].args[1], cs[t].args[2])
          /\ cs[p].args[2] = sg_features(heap[a.fm_test_real])

====
